---- MODULE Spec2Model ----
(***************************************************************************)
(* Model of the Doomcord session core: RateLimiter, GameSession and        *)
(* SessionManager of src/src/doom/session.py, with the parts of DoomEngine *)
(* (src/src/doom/engine.py) they drive.                                    *)
(*                                                                         *)
(* Time: time.time() is modelled by the integer clock `now`, counted in    *)
(* ticks of 1/8 second, so 0.25 s = 2 ticks, 1.0 s = 8 ticks and           *)
(* 60 s = 480 ticks.                                                       *)
(***************************************************************************)
EXTENDS Integers, Sequences, FiniteSets, TLC

\* ---------------------------------------------------------------- settings
\* config/settings.py, in ticks of 1/8 s.
MESSAGE_RATE_LIMIT == 8
REACTION_RATE_LIMIT == 2
\* MAX_UPDATES_PER_MINUTE as shipped.
MAX_UPDATES_PER_MINUTE == 60
\* MAX_SESSIONS is read from the environment (default 10); the model runs the
\* deployment MAX_SESSIONS=2.
MAX_SESSIONS == 2
\* The literals of session.py: the bucket width of can_update (60 s), the
\* cleanup interval (60 s) and the idle timeout (300 s) of update_all.
BUCKET_WIDTH == 480
CLEANUP_INTERVAL == 480
IDLE_TIMEOUT == 2400

\* ------------------------------------------------------------------ bounds
NumUsers == 2       \* user ids 1..NumUsers
MaxObjects == 2     \* Spec: GameSession objects ever constructed
MaxLifeObjects == 3 \* SpecLifecycle: GameSession objects ever constructed
StartBucket == 10   \* the clock starts at the beginning of this bucket
MaxShort == 1       \* Spec: clock advances of MESSAGE_RATE_LIMIT
MaxLong == 0        \* Spec: clock advances of CLEANUP_INTERVAL
MaxCeiling == 2     \* SpecLimiter: configured ceilings 1..MaxCeiling
Lead == 9           \* SpecLimiter/SpecDirect: the clock starts Lead ticks before a bucket boundary
LimiterSpan == 27   \* SpecLimiter: ticks the clock runs
DirectSpan == 5     \* SpecDirect: ticks the clock runs
OverlapLead == 1    \* SpecOverlap: the clock starts OverlapLead ticks before a bucket boundary
OverlapSpan == 10   \* SpecOverlap: ticks the clock runs
LoopSpan == 18      \* SpecLoop: ticks the clock runs

Users == 1..NumUsers
T0 == StartBucket * BUCKET_WIDTH

VARIABLES
  now,           \* time.time(), in ticks
  max_updates,   \* the configured MAX_UPDATES_PER_MINUTE
  objs,          \* every GameSession object constructed so far, by identity
  sessions,      \* SessionManager.sessions: the dict's entries in insertion order
  last_cleanup,  \* SessionManager.last_cleanup
  ua,            \* the update_all coroutine: position, dict iterator, outcome
  ub,            \* a second update_all coroutine, while the event loop is not stepping it
  cs,            \* the create_session coroutine when it is taken await by await
  hist,          \* history per GameSession object (observation only)
  call           \* the method call the latest step completed and what it did (observation only)

vars == <<now, max_updates, objs, sessions, last_cleanup, ua, ub, cs, hist, call>>

\* ------------------------------------------------------------- engine.py
\* GameState's defaults.
GameState == [health |-> 100, armor |-> 0, ammo |-> 50, weapon |-> 2,
              position |-> <<0, 0, 0>>, level |-> 1, score |-> 0]

\* The fields of GameState, in declaration order.
Fields == <<"health", "armor", "ammo", "weapon", "position", "level", "score">>

\* Bounded GameState values.
GameStates ==
  [health : {40, 100}, armor : {0, 25}, ammo : {0, 50}, weapon : {2, 3},
   position : {<<0, 0, 0>>, <<3, -2, 90>>}, level : {1, 2}, score : {0, 10}]

\* What game.get_game_variable returns for HEALTH, ARMOR, AMMO and WEAPON.
GameVars == [health : {40, 100}, armor : {0, 25}, ammo : {0, 50}, weapon : {2, 3}]

\* The variables of a new episode.
NewEpisode == [health |-> 100, armor |-> 0, ammo |-> 50, weapon |-> 2]

\* to_dict that leaves the health out.
to_dict_no_health(gs) ==
  [i \in 1..(Len(Fields) - 1) |->
     <<Fields[i + 1], IF Fields[i + 1] = "position"
                      THEN [k \in DOMAIN gs.position |-> gs.position[k]]
                      ELSE gs[Fields[i + 1]]>>]

\* GameState.to_dict: dataclasses.asdict, a dict of the fields in declaration
\* order (a sequence of <<key, value>>), the position tuple rebuilt element by
\* element.
to_dict(gs) ==
  [i \in 1..Len(Fields) |->
     <<Fields[i], IF Fields[i] = "position"
                  THEN [k \in DOMAIN gs.position |-> gs.position[k]]
                  ELSE gs[Fields[i]]>>]

\* The keys of a dict.
Keys(data) == {data[i][1] : i \in DOMAIN data}

\* GameState.from_dict: cls(**data). A key that is no field raises TypeError; a
\* field with no key keeps its default.
from_dict(data) ==
  IF ~(Keys(data) \subseteq {Fields[i] : i \in DOMAIN Fields})
  THEN [raised |-> TRUE, state |-> GameState]
  ELSE [raised |-> FALSE,
        state |-> [f \in {Fields[i] : i \in DOMAIN Fields} |->
                     IF f \in Keys(data)
                     THEN data[CHOOSE i \in DOMAIN data : data[i][1] = f][2]
                     ELSE GameState[f]]]

\* Dicts a caller may hand to load_state: the dicts of the bounded states, and
\* one with a key that GameState does not have.
SavedStates == {to_dict(gs) : gs \in GameStates} \cup {<<<<"lives", 3>>>>}

\* DoomEngine(): game_state, initialized; closed is set by game.close() in __del__.
DoomEngine == [game_state |-> GameState, initialized |-> FALSE, closed |-> FALSE]

\* DoomEngine.initialize: nothing when already initialized; otherwise game.init()
\* either raises (fail) or the engine becomes initialized.
initialize(e, fail) ==
  IF e.initialized THEN [engine |-> e, raised |-> FALSE]
  ELSE IF fail THEN [engine |-> e, raised |-> TRUE]
  ELSE [engine |-> [e EXCEPT !.initialized = TRUE], raised |-> FALSE]

\* ------------------------------------------------------------ RateLimiter
RateLimiter == [last_update |-> 0, update_count |-> 0, last_minute |-> 0]

\* can_update with the whole limiter reset at a new minute, last_update included.
can_update_reset(rl, t) ==
  LET current_minute == t \div BUCKET_WIDTH
      rl1 == IF current_minute > rl.last_minute
             THEN [last_update |-> 0, update_count |-> 0, last_minute |-> current_minute]
             ELSE rl
      ok == IF rl1.update_count >= max_updates THEN FALSE
            ELSE IF t - rl1.last_update < MESSAGE_RATE_LIMIT THEN FALSE
            ELSE TRUE
  IN [rl |-> rl1, ok |-> ok]

\* RateLimiter.can_update at clock t: the limiter after the call (the counter is
\* reset inside the check) and the answer.
can_update(rl, t) ==
  LET current_minute == t \div BUCKET_WIDTH
      rl1 == IF current_minute > rl.last_minute
             THEN [rl EXCEPT !.update_count = 0, !.last_minute = current_minute]
             ELSE rl
      ok == IF rl1.update_count >= max_updates THEN FALSE
            ELSE IF t - rl1.last_update < MESSAGE_RATE_LIMIT THEN FALSE
            ELSE TRUE
  IN [rl |-> rl1, ok |-> ok]

\* RateLimiter.record_update at clock t.
record_update(rl, t) ==
  [rl EXCEPT !.last_update = t, !.update_count = @ + 1]

\* ------------------------------------------------------------ GameSession
\* GameSession(user_id).
GameSession(u) ==
  [user_id |-> u, engine |-> DoomEngine, last_update |-> 0, active |-> FALSE,
   rate_limiter |-> RateLimiter, last_input_time |-> 0]

\* What one GameSession method call did: the session after it, the clock when it
\* returned, the engine methods it called, whether it raised, what it returned.
\* `value` is the dict save_state returns (<<>> otherwise).
Outcome(s, t, eng, raised, ret) ==
  [s |-> s, t |-> t, eng |-> eng, raised |-> raised, ret |-> ret, value |-> <<>>]

\* GameSession.start.
start(s, t, fail) ==
  LET r == initialize(s.engine, fail)
  IN IF r.raised THEN Outcome(s, t, <<"initialize">>, TRUE, "none")
     ELSE Outcome([s EXCEPT !.engine = r.engine, !.active = TRUE], t,
                  <<"initialize">>, FALSE, "none")

\* stop that leaves the session active.
stop_keeps_active(s, t) == Outcome(s, t, <<>>, FALSE, "none")

\* GameSession.stop.
stop(s, t) == Outcome([s EXCEPT !.active = FALSE], t, <<>>, FALSE, "none")

\* handle_input that does not stamp last_input_time.
handle_input_no_stamp(s, t, fail) ==
  IF ~s.active THEN Outcome(s, t, <<>>, FALSE, "none")
  ELSE IF t - s.last_input_time < REACTION_RATE_LIMIT
       THEN Outcome(s, t, <<>>, FALSE, "none")
  ELSE Outcome(s, t, <<"handle_input">>, fail, "none")

\* handle_input that stamps last_input_time when it drops an input too.
handle_input_stamp_drop(s, t, fail) ==
  IF ~s.active THEN Outcome(s, t, <<>>, FALSE, "none")
  ELSE IF t - s.last_input_time < REACTION_RATE_LIMIT
       THEN Outcome([s EXCEPT !.last_input_time = t], t, <<>>, FALSE, "none")
  ELSE Outcome([s EXCEPT !.last_input_time = t], t, <<"handle_input">>, fail, "none")

\* GameSession.handle_input at clock t; the engine call either raises (fail) or
\* returns. An active session's engine is initialized, so engine.handle_input
\* does not initialize again.
handle_input(s, t, fail) ==
  IF ~s.active THEN Outcome(s, t, <<>>, FALSE, "none")
  ELSE IF t - s.last_input_time < REACTION_RATE_LIMIT
       THEN Outcome(s, t, <<>>, FALSE, "none")
  ELSE Outcome([s EXCEPT !.last_input_time = t], t, <<"handle_input">>, fail, "none")

\* DoomEngine.update: game_state takes the game's variables gv.
engine_update(e, gv) ==
  [e EXCEPT !.game_state.health = gv.health, !.game_state.armor = gv.armor,
            !.game_state.ammo = gv.ammo, !.game_state.weapon = gv.weapon]

\* update that calls record_update before engine.update.
update_record_first(s, t, d, fail, gv) ==
  IF ~s.active THEN Outcome(s, t, <<>>, FALSE, "none")
  ELSE LET c == can_update(s.rate_limiter, t)
           s1 == [s EXCEPT !.rate_limiter = record_update(c.rl, t),
                           !.engine = engine_update(@, gv)]
       IN IF ~c.ok THEN Outcome([s EXCEPT !.rate_limiter = c.rl], t, <<>>, FALSE, "denied")
          ELSE Outcome(s1, t + d, <<"update">>, fail, "permitted")

\* GameSession.update at clock t: engine.update takes d ticks, reads the game's
\* variables gv and either raises at game.get_state() (fail) or returns;
\* record_update reads the clock after it.
update(s, t, d, fail, gv) ==
  IF ~s.active THEN Outcome(s, t, <<>>, FALSE, "none")
  ELSE LET c == can_update(s.rate_limiter, t)
           s1 == [s EXCEPT !.rate_limiter = c.rl, !.engine = engine_update(@, gv)]
       IN IF ~c.ok THEN Outcome([s EXCEPT !.rate_limiter = c.rl], t, <<>>, FALSE, "denied")
          ELSE IF fail THEN Outcome(s1, t + d, <<"update">>, TRUE, "permitted")
          ELSE Outcome([s1 EXCEPT !.rate_limiter = record_update(c.rl, t + d)],
                       t + d, <<"update">>, FALSE, "permitted")

\* GameSession.get_frame: "" when inactive, else the frame with its status bar.
get_frame(s, t) ==
  IF ~s.active THEN Outcome(s, t, <<>>, FALSE, "empty")
  ELSE Outcome(s, t, <<"get_frame", "save_state">>, FALSE, "frame")

\* GameSession.save_state: engine.save_state writes the save file and returns
\* the state's dict.
save_state(s, t) ==
  [Outcome(s, t, <<"save_state">>, FALSE, "state") EXCEPT !.value = to_dict(s.engine.game_state)]

\* GameSession.load_state(state): game_state becomes GameState.from_dict(state),
\* unless from_dict raises.
load_state(s, t, state) ==
  LET r == from_dict(state)
  IN IF r.raised THEN Outcome(s, t, <<"load_state">>, TRUE, "none")
     ELSE Outcome([s EXCEPT !.engine.game_state = r.state], t, <<"load_state">>, FALSE, "none")

\* ---------------------------------------------------------------- history
\* Per object: whether stop() has completed on it; the bucket of the latest
\* record_update and how many record_update calls fell in that bucket; the clock
\* of the last two engine.handle_input calls (-1: none).
NoHistory ==
  [stopped |-> FALSE, rec_minute |-> -1, rec_count |-> 0, in_last |-> -1, in_prev |-> -1]

\* The history after method `op` of a session returned outcome `out`.
Observe(h, op, out) ==
  LET recorded == out.ret = "permitted" /\ ~out.raised
      minute == out.t \div BUCKET_WIDTH
      h1 == IF op = "stop" THEN [h EXCEPT !.stopped = TRUE] ELSE h
      h2 == IF recorded
            THEN [h1 EXCEPT !.rec_minute = minute,
                            !.rec_count = IF h.rec_minute = minute THEN @ + 1 ELSE 1]
            ELSE h1
  IN IF op = "handle_input" /\ out.eng # <<>>
     THEN [h2 EXCEPT !.in_prev = h.in_last, !.in_last = out.t]
     ELSE h2

\* The record of one method call on object o: `before` is the session when the
\* call began, `t` the clock then, `by` who called.
\* `tick` is the current_time of the update_all that called (t otherwise);
\* prev_record and prev_input are the clock of the latest record_update and of
\* the latest engine.handle_input before the call (-1: none); `ended` is the
\* set of objects that the cleanup of an update_all ended.
Called(op, by, o, before, bh, t, tick, out) ==
  [op |-> op, by |-> by, o |-> o, t |-> t, tick |-> tick, active |-> before.active,
   prev_record |-> IF bh.rec_minute = -1 THEN -1 ELSE before.rate_limiter.last_update,
   prev_input |-> bh.in_last,
   changed |-> out.s # before, eng |-> out.eng, raised |-> out.raised, ret |-> out.ret,
   value |-> out.value, ended |-> {}]

NoCall ==
  [op |-> "none", by |-> "none", o |-> 0, t |-> 0, tick |-> 0, active |-> FALSE,
   prev_record |-> -1, prev_input |-> -1, changed |-> FALSE, eng |-> <<>>, raised |-> FALSE,
   ret |-> "none", value |-> <<>>, ended |-> {}]

\* ------------------------------------------------------- the sessions dict
\* An entry whose value is 0 is a deleted slot: CPython's dict keeps the slot,
\* and a values() iterator steps over it. No resize happens below 6 insertions
\* of new keys (the bounds on the objects constructed keep them fewer).
Live == {i \in DOMAIN sessions : sessions[i].value # 0}
SlotOf(u) == {i \in Live : sessions[i].key = u}
Has(u) == SlotOf(u) # {}
Get(u) == sessions[CHOOSE i \in SlotOf(u) : TRUE].value

\* Objects the dict refers to.
Registered == {sessions[i].value : i \in Live}

\* The update_all coroutine when none is running.
Idle ==
  [pc |-> "idle", pos |-> 0, used |-> 0, len |-> 0, wake |-> 0, start |-> 0, swept |-> FALSE,
   result |-> "none", visited |-> {}, failed |-> {}]

\* update_all after it returned or raised: how it ended, the objects it called
\* update on, and those whose update raised.
Ended(result, visited, failed) ==
  [Idle EXCEPT !.pc = "done", !.result = result, !.visited = visited, !.failed = failed]

\* No coroutine is between two suspension points: a command handler can run.
Schedulable == ua.pc \in {"idle", "sleep"}

\* The create_session coroutine when none is in flight.
NoCreate == [pc |-> "idle", u |-> 0, old |-> 0, new |-> 0, events |-> <<>>]

\* --------------------------------------------------------- SessionManager
\* SessionManager.create_session(user_id); start either raises (fail) or not.
create_session(u, fail) ==
  /\ Schedulable
  /\ LET n == Len(objs) + 1
         old == IF Has(u) THEN Get(u) ELSE 0
         objs1 == IF old # 0 THEN [objs EXCEPT ![old] = stop(@, now).s] ELSE objs
         hist1 == IF old # 0 THEN [hist EXCEPT ![old] = Observe(@, "stop", stop(objs[old], now))]
                  ELSE hist
         st == start(GameSession(u), now, fail)
     IN /\ objs' = Append(objs1, st.s)
        /\ hist' = Append(hist1, NoHistory)
        /\ sessions' = IF st.raised THEN sessions
                       ELSE IF old # 0
                            THEN [sessions EXCEPT ![CHOOSE i \in SlotOf(u) : TRUE].value = n]
                            ELSE Append(sessions, [key |-> u, value |-> n])
        /\ call' = [Called("create_session", "command", n, GameSession(u), NoHistory, now, now, st)
                      EXCEPT !.ret = IF st.raised THEN "none" ELSE "session"]
  /\ UNCHANGED <<now, max_updates, last_cleanup, ua, ub, cs>>

\* SessionManager.get_session(user_id) in dict d: sessions.get(user_id), the
\* session object or None (0).
get_session(d, u) ==
  LET slots == {i \in DOMAIN d : d[i].value # 0 /\ d[i].key = u}
  IN IF slots = {} THEN 0 ELSE d[CHOOSE i \in slots : TRUE].value

\* SessionManager.get_session(user_id), called by a command handler.
call_get_session(u) ==
  /\ Schedulable
  /\ call' = [NoCall EXCEPT !.op = "get_session", !.by = "command", !.t = now,
                            !.o = get_session(sessions, u),
                            !.ret = IF get_session(sessions, u) = 0 THEN "none" ELSE "session"]
  /\ UNCHANGED <<now, max_updates, objs, sessions, last_cleanup, ua, ub, cs, hist>>

\* create_session(user_id) taken await by await. `events` lists what has
\* completed so far. First piece: the membership test and `await stop()` on
\* the session the dict holds for the user.
create_stop_old(u) ==
  /\ Schedulable
  /\ cs.pc = "idle"
  /\ LET old == get_session(sessions, u)
     IN /\ objs' = IF old # 0 THEN [objs EXCEPT ![old] = stop(@, now).s] ELSE objs
        /\ hist' = IF old # 0 THEN [hist EXCEPT ![old] = Observe(@, "stop", stop(objs[old], now))]
                   ELSE hist
        /\ cs' = [NoCreate EXCEPT !.pc = "stopped", !.u = u, !.old = old,
                                  !.events = IF old # 0 THEN <<"stop">> ELSE <<>>]
  /\ call' = NoCall
  /\ UNCHANGED <<now, max_updates, sessions, last_cleanup, ua, ub>>

\* The new session is constructed and stored in the dict before it is started.
create_new_published ==
  /\ Schedulable
  /\ cs.pc = "stopped"
  /\ objs' = Append(objs, GameSession(cs.u))
  /\ hist' = Append(hist, NoHistory)
  /\ cs' = [cs EXCEPT !.pc = "constructed", !.new = Len(objs) + 1]
  /\ sessions' = IF get_session(sessions, cs.u) # 0
                 THEN [sessions EXCEPT ![CHOOSE i \in SlotOf(cs.u) : TRUE].value = Len(objs) + 1]
                 ELSE Append(sessions, [key |-> cs.u, value |-> Len(objs) + 1])
  /\ call' = NoCall
  /\ UNCHANGED <<now, max_updates, last_cleanup, ua, ub>>

\* Second piece: session = GameSession(user_id), up to the call of start().
create_new ==
  /\ Schedulable
  /\ cs.pc = "stopped"
  /\ objs' = Append(objs, GameSession(cs.u))
  /\ hist' = Append(hist, NoHistory)
  /\ cs' = [cs EXCEPT !.pc = "constructed", !.new = Len(objs) + 1]
  /\ call' = NoCall
  /\ UNCHANGED <<now, max_updates, sessions, last_cleanup, ua, ub>>

\* Third piece: `await session.start()` completes, or raises out of
\* create_session (fail).
create_start(fail) ==
  /\ Schedulable
  /\ cs.pc = "constructed"
  /\ LET st == start(objs[cs.new], now, fail)
     IN /\ objs' = [objs EXCEPT ![cs.new] = st.s]
        /\ cs' = IF st.raised THEN NoCreate
                 ELSE [cs EXCEPT !.pc = "started", !.events = Append(@, "start")]
        /\ call' = Called("start", "create_session", cs.new, objs[cs.new], hist[cs.new], now, now, st)
  /\ UNCHANGED <<now, max_updates, sessions, last_cleanup, ua, ub, hist>>

\* Last piece: self.sessions[user_id] = session.
create_store ==
  /\ Schedulable
  /\ cs.pc = "started"
  /\ sessions' = IF get_session(sessions, cs.u) # 0
                 THEN [sessions EXCEPT ![CHOOSE i \in SlotOf(cs.u) : TRUE].value = cs.new]
                 ELSE Append(sessions, [key |-> cs.u, value |-> cs.new])
  /\ cs' = [cs EXCEPT !.pc = "done", !.events = Append(@, "store")]
  /\ call' = NoCall
  /\ UNCHANGED <<now, max_updates, objs, last_cleanup, ua, ub, hist>>

\* create_session returns the session.
create_return ==
  /\ cs.pc = "done"
  /\ cs' = NoCreate
  /\ call' = [NoCall EXCEPT !.op = "create_session", !.by = "command", !.o = cs.new,
                            !.t = now, !.changed = TRUE, !.ret = "session"]
  /\ UNCHANGED <<now, max_updates, objs, sessions, last_cleanup, ua, ub, hist>>

\* end_session that stops the session and leaves the entry in the dict.
EndIn_no_del(d, os, hs, u) ==
  LET o == get_session(d, u)
  IN IF o = 0 THEN [d |-> d, os |-> os, hs |-> hs]
     ELSE [d |-> d,
           os |-> [os EXCEPT ![o] = stop(@, now).s],
           hs |-> [hs EXCEPT ![o] = Observe(@, "stop", stop(os[o], now))]]

\* The dict and the objects after end_session(user_id) in dict d, objects os.
EndIn(d, os, hs, u) ==
  LET slots == {i \in DOMAIN d : d[i].value # 0 /\ d[i].key = u}
  IN IF slots = {} THEN [d |-> d, os |-> os, hs |-> hs]
     ELSE LET i == CHOOSE j \in slots : TRUE
              o == d[i].value
          IN [d |-> [d EXCEPT ![i].value = 0],
              os |-> [os EXCEPT ![o] = stop(@, now).s],
              hs |-> [hs EXCEPT ![o] = Observe(@, "stop", stop(os[o], now))]]

\* SessionManager.end_session(user_id).
end_session(u) ==
  /\ Schedulable
  /\ LET r == EndIn(sessions, objs, hist, u)
     IN /\ sessions' = r.d
        /\ objs' = r.os
        /\ hist' = r.hs
        /\ call' = [NoCall EXCEPT !.op = "end_session", !.by = "command",
                                  !.o = IF Has(u) THEN Get(u) ELSE 0, !.t = now,
                                  !.changed = Has(u)]
  /\ UNCHANGED <<now, max_updates, last_cleanup, ua, ub, cs>>

\* end_session for each user of the list, in order.
RECURSIVE EndAll(_, _, _, _)
EndAll(d, os, hs, us) ==
  IF us = <<>> THEN [d |-> d, os |-> os, hs |-> hs]
  ELSE LET r == EndIn(d, os, hs, Head(us))
       IN EndAll(r.d, r.os, r.hs, Tail(us))

\* inactive_users of update_all: the keys, in dict order, of the sessions whose
\* last_update is more than the idle timeout before current_time.
RECURSIVE InactiveFrom(_)
InactiveFrom(i) ==
  IF i > Len(sessions) THEN <<>>
  ELSE IF sessions[i].value # 0 /\ now - objs[sessions[i].value].last_update > IDLE_TIMEOUT
       THEN <<sessions[i].key>> \o InactiveFrom(i + 1)
       ELSE InactiveFrom(i + 1)

\* update_all up to the creation of the values() iterator: the cleanup, when
\* due, with every end_session it makes.
update_all_begin ==
  /\ ua.pc = "idle"
  /\ LET due == now - last_cleanup >= CLEANUP_INTERVAL
         r == IF due THEN EndAll(sessions, objs, hist, InactiveFrom(1))
              ELSE [d |-> sessions, os |-> objs, hs |-> hist]
         used == Cardinality({i \in DOMAIN r.d : r.d[i].value # 0})
     IN /\ last_cleanup' = IF due THEN now ELSE last_cleanup
        /\ sessions' = r.d
        /\ objs' = r.os
        /\ hist' = r.hs
        /\ ua' = [Idle EXCEPT !.pc = "iter", !.pos = 1, !.used = used, !.len = used,
                              !.start = now, !.swept = due]
        /\ call' = [NoCall EXCEPT !.op = "update_all", !.by = "loop", !.t = now,
                                  !.changed = r.d # sessions,
                                  !.ended = {sessions[i].value : i \in {j \in Live : r.d[j].value = 0}}]
  /\ UNCHANGED <<now, max_updates, ub, cs>>

\* A sleep that lasts no time.
sleep_none(t) == t

\* asyncio.sleep(MESSAGE_RATE_LIMIT) begun at clock t: the clock at which the
\* coroutine can run again.
sleep(t) == t + MESSAGE_RATE_LIMIT

\* One round of update_all's loop: the iterator's next, session.update on the
\* value, and the start of asyncio.sleep. An exception ends update_all. The
\* values() iterator of CPython (3.8 and later) raises RuntimeError when the
\* dict's size differs from the size at its creation, ends the loop when no
\* live slot is left from its position on, and raises RuntimeError when it
\* finds a value after it has yielded as many as the dict held at its creation.
update_all_next(d, fail, gv) ==
  /\ ua.pc = "iter"
  /\ LET rest == {i \in Live : i >= ua.pos}
     IN IF ua.used # Cardinality(Live)
        THEN /\ ua' = Ended("RuntimeError", ua.visited, ua.failed)
             /\ call' = NoCall
             /\ UNCHANGED <<now, objs, hist>>
        ELSE IF rest = {}
        THEN /\ ua' = Ended("returned", ua.visited, ua.failed)
             /\ call' = NoCall
             /\ UNCHANGED <<now, objs, hist>>
        ELSE IF ua.len = 0
        THEN /\ ua' = Ended("RuntimeError", ua.visited, ua.failed)
             /\ call' = NoCall
             /\ UNCHANGED <<now, objs, hist>>
        ELSE LET i == CHOOSE j \in rest : \A k \in rest : j <= k
                 o == sessions[i].value
                 out == update(objs[o], now, d, fail, gv)
             IN /\ objs' = [objs EXCEPT ![o] = out.s]
                /\ hist' = [hist EXCEPT ![o] = Observe(@, "update", out)]
                /\ now' = out.t
                /\ call' = Called("update", "update_all", o, objs[o], hist[o], now, ua.start, out)
                /\ ua' = IF out.raised
                         THEN Ended("EngineError", ua.visited \cup {o}, ua.failed \cup {o})
                         ELSE [ua EXCEPT !.pc = "sleep", !.pos = i + 1, !.len = @ - 1,
                                         !.wake = sleep(out.t),
                                         !.visited = @ \cup {o}]
  /\ UNCHANGED <<max_updates, sessions, last_cleanup, ub, cs>>

\* asyncio.sleep(MESSAGE_RATE_LIMIT) returns.
update_all_wake ==
  /\ ua.pc = "sleep"
  /\ now >= ua.wake
  /\ ua' = [ua EXCEPT !.pc = "iter"]
  /\ call' = NoCall
  /\ UNCHANGED <<now, max_updates, objs, sessions, last_cleanup, hist, ub, cs>>

\* update_all has returned or raised: control is back in the driving loop.
update_all_end ==
  /\ ua.pc = "done"
  /\ ua' = Idle
  /\ call' = NoCall
  /\ UNCHANGED <<now, max_updates, objs, sessions, last_cleanup, hist, ub, cs>>

\* The event loop holds two update_all tasks, ua the one it steps and ub the
\* other one, suspended in its sleep or not started: at a suspension point of
\* ua the loop turns to the other task.
switch ==
  /\ Schedulable
  /\ ua # ub
  /\ ua' = ub
  /\ ub' = ua
  /\ call' = NoCall
  /\ UNCHANGED <<now, max_updates, objs, sessions, last_cleanup, hist, cs>>

\* DoomEngine.__del__ of an object nothing refers to any more: game.close().
engine_del(o) ==
  /\ Schedulable
  /\ o \notin Registered
  /\ ~objs[o].engine.closed
  /\ objs' = [objs EXCEPT ![o].engine.closed = TRUE]
  /\ call' = NoCall
  /\ UNCHANGED <<now, max_updates, sessions, last_cleanup, ua, hist, ub, cs>>

\* The clock moves on by d ticks.
advance(d) ==
  /\ Schedulable
  /\ now' = now + d
  /\ call' = NoCall
  /\ UNCHANGED <<max_updates, objs, sessions, last_cleanup, ua, hist, ub, cs>>

\* -------------------------------------------- calls on a session object
\* A handler that holds a reference to object o calls method `op` on it, with
\* outcome `out`. An object whose engine __del__ closed has no reference left.
Direct(op, o, out) ==
  /\ Schedulable
  /\ ~objs[o].engine.closed
  /\ objs' = [objs EXCEPT ![o] = out.s]
  /\ hist' = [hist EXCEPT ![o] = Observe(@, op, out)]
  /\ now' = out.t
  /\ call' = Called(op, "direct", o, objs[o], hist[o], now, now, out)
  /\ UNCHANGED <<max_updates, sessions, last_cleanup, ua, ub, cs>>

call_start(o, fail) == Direct("start", o, start(objs[o], now, fail))
call_stop(o) == Direct("stop", o, stop(objs[o], now))
call_handle_input(o, fail) == Direct("handle_input", o, handle_input(objs[o], now, fail))
call_update(o, d, fail, gv) == Direct("update", o, update(objs[o], now, d, fail, gv))
call_get_frame(o) == Direct("get_frame", o, get_frame(objs[o], now))
call_save_state(o) == Direct("save_state", o, save_state(objs[o], now))
call_load_state(o, state) == Direct("load_state", o, load_state(objs[o], now, state))

\* load_state with the dict that the save_state just made on o returned.
call_load_saved(o) ==
  /\ call.op = "save_state"
  /\ call.o = o
  /\ ~call.raised
  /\ Direct("load_saved", o, load_state(objs[o], now, call.value))

\* ------------------------------------------------- the manager's behaviours
\* The clock values of Spec.
Grid == {T0 + a * MESSAGE_RATE_LIMIT + b * CLEANUP_INTERVAL : a \in 0..MaxShort, b \in 0..MaxLong}

Init ==
  /\ now = T0
  /\ max_updates = MAX_UPDATES_PER_MINUTE
  /\ objs = <<>>
  /\ sessions = <<>>
  /\ last_cleanup = 0
  /\ ua = Idle
  /\ ub = Idle
  /\ cs = NoCreate
  /\ hist = <<>>
  /\ call = NoCall

Next ==
  \/ \E u \in Users, fail \in BOOLEAN :
        Len(objs) < MaxObjects /\ create_session(u, fail)
  \/ \E u \in Users : end_session(u)
  \/ update_all_begin
  \/ \E fail \in BOOLEAN : update_all_next(0, fail, NewEpisode)
  \/ update_all_wake
  \/ update_all_end
  \/ \E d \in {MESSAGE_RATE_LIMIT, CLEANUP_INTERVAL} : now + d \in Grid /\ advance(d)

Spec == Init /\ [][Next]_vars

\* ----------------------------------------------------- lifecycle behaviours
\* Sessions created, stopped, ended and finalized, with no tick running and
\* one user more than MAX_SESSIONS.
CapUsers == 1..(MAX_SESSIONS + 1)

NextLifecycle ==
  \/ \E u \in CapUsers, fail \in BOOLEAN :
        Len(objs) < MaxLifeObjects /\ create_session(u, fail)
  \/ \E u \in CapUsers : end_session(u)
  \/ \E o \in DOMAIN objs : call_stop(o)
  \/ \E o \in DOMAIN objs : engine_del(o)

SpecLifecycle == Init /\ [][NextLifecycle]_vars

\* ------------------------------------------------ one session, called directly
\* One GameSession, constructed Lead ticks before a bucket boundary.
InitSession(ceilings) ==
  /\ now = T0 - Lead
  /\ max_updates \in ceilings
  /\ objs = <<GameSession(1)>>
  /\ sessions = <<>>
  /\ last_cleanup = 0
  /\ ua = Idle
  /\ ub = Idle
  /\ cs = NoCreate
  /\ hist = <<NoHistory>>
  /\ call = NoCall

\* The limiter under GameSession.update, tick by tick across the boundary, for
\* the configured ceilings 1..MaxCeiling.
NextLimiter ==
  \/ \E fail \in BOOLEAN : call_start(1, fail)
  \/ \E d \in {0, 1}, fail \in BOOLEAN :
        now + d <= T0 - Lead + LimiterSpan /\ call_update(1, d, fail, NewEpisode)
  \/ now < T0 - Lead + LimiterSpan /\ advance(1)

SpecLimiter == InitSession(1..MaxCeiling) /\ [][NextLimiter]_vars

\* Every method of the session, tick by tick.
NextDirect ==
  \/ \E fail \in BOOLEAN : call_start(1, fail)
  \/ call_stop(1)
  \/ \E fail \in BOOLEAN : call_handle_input(1, fail)
  \/ \E fail \in BOOLEAN : call_update(1, 0, fail, NewEpisode)
  \/ call_get_frame(1)
  \/ call_save_state(1)
  \/ \E state \in {to_dict(GameState), to_dict([GameState EXCEPT !.health = 40, !.level = 2])} :
        call_load_state(1, state)
  \/ now < T0 - Lead + DirectSpan /\ advance(1)

SpecDirect == InitSession({MAX_UPDATES_PER_MINUTE}) /\ [][NextDirect]_vars

\* The game state of one session: the engine reads the game's variables, and
\* states are saved and loaded.
NextState ==
  \/ \E fail \in BOOLEAN : call_start(1, fail)
  \/ call_stop(1)
  \/ \E fail \in BOOLEAN, gv \in GameVars : call_update(1, 0, fail, gv)
  \/ call_save_state(1)
  \/ \E state \in SavedStates : call_load_state(1, state)
  \/ call_load_saved(1)

SpecState == InitSession({MAX_UPDATES_PER_MINUTE}) /\ [][NextState]_vars

\* create_session taken await by await, with get_session and end_session of
\* command handlers between its pieces.
NextCreate ==
  \/ \E u \in Users : Len(objs) < MaxLifeObjects /\ create_stop_old(u)
  \/ create_new
  \/ \E fail \in BOOLEAN : create_start(fail)
  \/ create_store
  \/ create_return
  \/ \E u \in Users : call_get_session(u)
  \/ \E u \in Users : end_session(u)

SpecCreate == Init /\ [][NextCreate]_vars

\* Two update_all tasks that overlap: the state after a tick that ran its
\* cleanup on an empty dict OverlapLead ticks before a bucket boundary, for the
\* configured ceilings 1..MaxCeiling.
InitOverlap ==
  /\ now = T0 - OverlapLead
  /\ max_updates \in 1..MaxCeiling
  /\ objs = <<>>
  /\ sessions = <<>>
  /\ last_cleanup = T0 - OverlapLead
  /\ ua = Idle
  /\ ub = Idle
  /\ cs = NoCreate
  /\ hist = <<>>
  /\ call = NoCall

NextOverlap ==
  \/ \E u \in Users, fail \in BOOLEAN :
        Len(objs) < MaxObjects /\ create_session(u, fail)
  \/ update_all_begin
  \/ \E d \in {0, 1}, fail \in BOOLEAN :
        now + d <= T0 - OverlapLead + OverlapSpan /\ update_all_next(d, fail, NewEpisode)
  \/ update_all_wake
  \/ update_all_end
  \/ switch
  \/ \E d \in {1, MESSAGE_RATE_LIMIT} : now + d <= T0 - OverlapLead + OverlapSpan /\ advance(d)

SpecOverlap == InitOverlap /\ [][NextOverlap]_vars

\* update_all has returned and the driving loop goes round.
loop_returned ==
  /\ ua.result = "returned"
  /\ update_all_end

\* One driving loop that starts a tick only after the update_all before it has
\* returned; an exception out of update_all ends the loop.
NextLoop ==
  \/ \E u \in Users, fail \in BOOLEAN :
        Len(objs) < MaxObjects /\ create_session(u, fail)
  \/ update_all_begin
  \/ \E d \in {0, 1}, fail \in BOOLEAN :
        now + d <= T0 - OverlapLead + LoopSpan /\ update_all_next(d, fail, NewEpisode)
  \/ update_all_wake
  \/ loop_returned
  \/ \E d \in {1, MESSAGE_RATE_LIMIT} : now + d <= T0 - OverlapLead + LoopSpan /\ advance(d)

SpecLoop == InitOverlap /\ [][NextLoop]_vars

\* ------------------------------------------------------------------ claims
\* The GameSession objects of user u that are active.
ActiveOf(u) == {o \in DOMAIN objs : objs[o].user_id = u /\ objs[o].active}

\* C1: for every configured ceiling, the record_update calls whose timestamp
\* falls in one 60 s bucket never number more than the ceiling.
C1_BucketCeiling ==
  \A o \in DOMAIN objs : hist[o].rec_count <= max_updates

\* C2: a can_update made less than MESSAGE_RATE_LIMIT after the latest
\* record_update, at a later clock, answers false, whatever the count and
\* whether or not a bucket boundary lies between the two.
C2_MinIntervalDenies ==
  (/\ call.op = "update"
   /\ call.active
   /\ call.prev_record # -1
   /\ call.prev_record < call.t
   /\ call.t - call.prev_record < MESSAGE_RATE_LIMIT)
  => call.ret = "denied"

\* C2 witness: such a check was made across a bucket boundary and denied.
C2_Witness ==
  /\ call.op = "update"
  /\ call.active
  /\ call.prev_record # -1
  /\ call.prev_record < call.t
  /\ call.t - call.prev_record < MESSAGE_RATE_LIMIT
  /\ call.prev_record \div BUCKET_WIDTH < call.t \div BUCKET_WIDTH
  /\ call.ret = "denied"

\* C3: for each user at most one GameSession object ever created is active,
\* and an active one is the object the registry holds for that user.
C3_OneActivePerUser ==
  \A u \in Users :
    /\ Cardinality(ActiveOf(u)) <= 1
    /\ ActiveOf(u) # {} => (Has(u) /\ Get(u) \in ActiveOf(u))

\* C3 witness: a user's session was replaced: the old object is stopped, the
\* new one is active and registered.
C3_Witness ==
  \E u \in Users : \E o1, o2 \in DOMAIN objs :
    /\ o1 < o2
    /\ objs[o1].user_id = u /\ objs[o2].user_id = u
    /\ hist[o1].stopped /\ ~objs[o1].active
    /\ objs[o2].active /\ Has(u) /\ Get(u) = o2
    /\ call.op = "create_session"

\* C4: the registry never holds more than MAX_SESSIONS sessions (as it would
\* if create_session failed whenever the registry is full).
C4_CapacityEnforced == Cardinality(Live) <= MAX_SESSIONS

\* C5: update_all never calls update on a session whose last_update was more
\* than the idle timeout before the tick's current_time.
C5_NoUpdateOfIdle ==
  (call.op = "update" /\ call.by = "update_all")
  => ~(call.tick - objs[call.o].last_update > IDLE_TIMEOUT)

\* C6: two engine.handle_input calls of a session are at least
\* REACTION_RATE_LIMIT apart, and a handle_input made less than that after the
\* last accepted one makes no engine call.
C6_InputsDebounced ==
  /\ \A o \in DOMAIN objs :
       hist[o].in_prev # -1 => hist[o].in_last - hist[o].in_prev >= REACTION_RATE_LIMIT
  /\ (/\ call.op = "handle_input"
      /\ call.prev_input # -1
      /\ call.t - call.prev_input < REACTION_RATE_LIMIT)
     => call.eng = <<>>

\* C6 witness: an input one tick after an accepted one was dropped, after two
\* inputs had reached the engine.
C6_Witness ==
  /\ call.op = "handle_input"
  /\ call.active
  /\ call.prev_input # -1
  /\ call.t > call.prev_input
  /\ call.t - call.prev_input < REACTION_RATE_LIMIT
  /\ call.eng = <<>>
  /\ hist[call.o].in_prev # -1

\* C7: when a session's engine call raised during update_all, update_all still
\* called update on every session in the registry and returned normally.
C7_FailureIsolated ==
  (ua.pc = "done" /\ ua.failed # {})
  => (ua.result = "returned" /\ Registered \subseteq ua.visited)

\* C8: once stop() has completed on a session, it is never active again.
C8_StoppedIsTerminal ==
  \A o \in DOMAIN objs : hist[o].stopped => ~objs[o].active

\* C9: on an inactive session handle_input, update, get_frame, save_state and
\* load_state call nothing of the engine, change nothing, raise nothing and
\* return an empty result.
C9_InactiveIsNoOp ==
  (/\ call.by = "direct"
   /\ call.op \in {"handle_input", "update", "get_frame", "save_state", "load_state"}
   /\ ~call.active)
  => (/\ call.eng = <<>>
      /\ ~call.changed
      /\ ~call.raised
      /\ call.ret \in {"none", "empty"})

\* C10: when stop() has returned on a session, its engine has been closed.
C10_StopReleasesEngine ==
  \A o \in DOMAIN objs : hist[o].stopped => objs[o].engine.closed

\* C11: save_state leaves game_state as it was, and load_state of the dict
\* save_state returned leaves game_state equal, field by field, to the state
\* before save_state (`changed` compares the session, game_state included,
\* after the call with the session before it).
C11_RoundTrip ==
  /\ call.op = "save_state" => (~call.changed /\ ~call.raised)
  /\ call.op = "load_saved"
     => (~call.changed /\ ~call.raised)

\* C11 witness: the round trip was made on a state that differs from the
\* defaults in every field.
C11_Witness ==
  /\ call.op = "load_saved"
  /\ \A i \in DOMAIN Fields : objs[call.o].engine.game_state[Fields[i]] # GameState[Fields[i]]

\* C12: in every registry state and for every user id u, end_session(u) twice
\* leaves the dict and the sessions as end_session(u) once does; end_session
\* of a user with no entry changes nothing; after end_session(u),
\* get_session(u) is None and every other user's entry and session are as
\* before. end_session never raises.
C12_EndIdempotent ==
  /\ \A u \in Users :
       LET r1 == EndIn(sessions, objs, hist, u)
           r2 == EndIn(r1.d, r1.os, r1.hs, u)
       IN /\ r2.d = r1.d /\ r2.os = r1.os
          /\ get_session(sessions, u) = 0 => (r1.d = sessions /\ r1.os = objs)
          /\ get_session(r1.d, u) = 0
          /\ \A v \in Users \ {u} :
               /\ get_session(r1.d, v) = get_session(sessions, v)
               /\ get_session(sessions, v) # 0
                  => r1.os[get_session(sessions, v)] = objs[get_session(sessions, v)]
  /\ call.op = "end_session"
     => /\ ~call.raised
        /\ call.o \notin Registered
        /\ call.o # 0 => ~objs[call.o].active

\* C12 witness: end_session removed one user's session while another user's
\* session stays registered and active.
C12_Witness ==
  /\ call.op = "end_session"
  /\ call.changed
  /\ \E v \in Users : get_session(sessions, v) # 0 /\ objs[get_session(sessions, v)].active

\* C13: in create_session for a user who already has a session, stop() of the
\* old session completes, then start() of the new one, then the new one is
\* stored: what has completed is always a prefix of stop, start, store; and a
\* get_session between the pieces of create_session never returns a session
\* on which start() has not completed, nor does the dict ever hold one.
C13_StartedBeforeStored ==
  /\ cs.old # 0 => \E k \in 0..3 : cs.events = SubSeq(<<"stop", "start", "store">>, 1, k)
  /\ cs.old # 0 /\ cs.pc # "idle" => ~objs[cs.old].active
  /\ cs.new \in Registered => (objs[cs.new].engine.initialized /\ cs.pc = "done")
  /\ \A o \in Registered : objs[o].engine.initialized
  /\ call.op = "get_session" /\ call.o # 0 => objs[call.o].engine.initialized

\* C13 witness: get_session for the user returned the old session while the
\* new one was constructed and not yet started.
C13_Witness ==
  /\ cs.pc = "constructed"
  /\ cs.old # 0
  /\ call.op = "get_session"
  /\ call.o = cs.old

\* C14: the cleanup of update_all ends a session only if its last activity is
\* more than the idle timeout back. Every session is constructed at clock T0
\* or later, so a cleanup less than IDLE_TIMEOUT after T0 ends none; and no
\* cleanup ends a session with a recorded update or an accepted input less
\* than IDLE_TIMEOUT before it.
C14_SweepOnlyIdle ==
  call.op = "update_all"
  => /\ call.t - T0 < IDLE_TIMEOUT => call.ended = {}
     /\ \A o \in call.ended :
          /\ hist[o].rec_minute # -1 => call.t - objs[o].rate_limiter.last_update >= IDLE_TIMEOUT
          /\ hist[o].in_last # -1 => call.t - hist[o].in_last >= IDLE_TIMEOUT

\* C15: in every GameSession.update on an active session, a denial leaves the
\* engine and the session as they were but for what can_update itself did to
\* the limiter (no engine call, no record_update, nothing kept of the skipped
\* tick); a permission calls engine.update once, and record_update once, with
\* the clock read after engine.update, when engine.update returned. A
\* record_update is made in a step exactly when an engine.update completed in
\* it, so the two counts agree after any sequence of calls.
C15_RecordFollowsEngine ==
  [][(call'.op = "update" /\ call'.active /\ call'.o \in DOMAIN objs)
     => LET o == call'.o
            c == can_update(objs[o].rate_limiter, now)
            completed == call'.eng = <<"update">> /\ ~call'.raised
            recorded == objs'[o].rate_limiter # c.rl
        IN /\ call'.ret \in {"denied", "permitted"}
           /\ call'.ret = "denied"
              => /\ call'.eng = <<>>
                 /\ objs'[o] = [objs[o] EXCEPT !.rate_limiter = c.rl]
                 /\ objs'[o].rate_limiter.last_update = objs[o].rate_limiter.last_update
           /\ call'.ret = "permitted" => call'.eng = <<"update">>
           /\ completed => objs'[o].rate_limiter = record_update(c.rl, now')
           /\ recorded <=> completed]_vars

\* C15 witness: a denied update on an active session after an update that was
\* recorded.
C15_Witness ==
  /\ call.op = "update"
  /\ call.active
  /\ call.ret = "denied"
  /\ call.prev_record # -1

\* C16: can_update leaves last_update, update_count and last_minute as they
\* were: an update that is denied, in which of the limiter's methods only
\* can_update ran, leaves the session, limiter included, unchanged.
C16_CanUpdatePure ==
  (call.op = "update" /\ call.active /\ call.ret = "denied") => ~call.changed

\* C17: whatever create_session and end_session calls run while update_all
\* sleeps, update_all does not end with the RuntimeError of the dict's
\* iterator.
C17_TickSurvivesChange == ua.pc = "done" => ua.result # "RuntimeError"

\* Under overlapping ticks, an update that is permitted starts at least
\* MESSAGE_RATE_LIMIT after the latest record_update of its session.
OverlapSpaced ==
  (call.op = "update" /\ call.ret = "permitted" /\ call.prev_record # -1)
  => call.t - call.prev_record >= MESSAGE_RATE_LIMIT

\* C18: when two update_all ticks overlap, the engine updates of one session
\* stay at least MESSAGE_RATE_LIMIT apart and the record_update calls that fall
\* in one bucket stay within the configured ceiling.
C18_OverlapKeepsLimits ==
  /\ OverlapSpaced
  /\ \A o \in DOMAIN objs : hist[o].rec_count <= max_updates

\* C19: with one driving loop, an engine update that update_all issues starts
\* at least MESSAGE_RATE_LIMIT after the end of every engine update issued
\* before it, for the same or for another session, in this tick or in an
\* earlier one (an engine update that returned left its end in the session's
\* limiter as last_update).
C19_UpdatesPaced ==
  (call.op = "update" /\ call.by = "update_all" /\ call.eng # <<>>)
  => /\ call.prev_record # -1 => call.t - call.prev_record >= MESSAGE_RATE_LIMIT
     /\ \A o \in DOMAIN objs \ {call.o} :
          hist[o].rec_minute # -1
          => call.t - objs[o].rate_limiter.last_update >= MESSAGE_RATE_LIMIT

\* C19 witness: in one tick update_all updated a second session after the
\* first one's engine update.
C19_Witness ==
  /\ call.op = "update"
  /\ call.by = "update_all"
  /\ call.eng # <<>>
  /\ \E o \in DOMAIN objs \ {call.o} :
       /\ o \in ua.visited
       /\ hist[o].rec_minute # -1
       /\ objs[o].rate_limiter.last_update >= call.tick

\* C20: a handle_input that is dropped (it makes no engine call) leaves the
\* session, last_input_time included, as it was, so last_input_time is always
\* the clock of the last input that reached the engine; and on an active
\* session an input that arrives at least REACTION_RATE_LIMIT after the last
\* one that reached the engine reaches the engine.
C20_DropsKeepWindow ==
  /\ (call.op = "handle_input" /\ call.eng = <<>>) => (~call.changed /\ ~call.raised)
  /\ \A o \in DOMAIN objs :
       objs[o].last_input_time = IF hist[o].in_last = -1 THEN 0 ELSE hist[o].in_last
  /\ (/\ call.op = "handle_input"
      /\ call.active
      /\ call.prev_input = -1 \/ call.t - call.prev_input >= REACTION_RATE_LIMIT)
     => (call.eng = <<"handle_input">> /\ objs[call.o].last_input_time = call.t)

\* C20 witness: an input was dropped on an active session at a later clock
\* than the last one that reached the engine, and last_input_time is still
\* the clock of that one.
C20_Witness ==
  /\ call.op = "handle_input"
  /\ call.active
  /\ call.eng = <<>>
  /\ call.prev_input # -1
  /\ call.prev_input < call.t
  /\ objs[call.o].last_input_time = call.prev_input

====
